---- MODULE Spec2Model ----
(***************************************************************************)
(* Session and stream lifecycle layer of actual-budget-mcp-server:         *)
(*   - InMemoryEventStore   (src/src/inMemoryEventStore.ts)                *)
(*   - ActualClient         (src/unnamed/part_002)                         *)
(*   - the /mcp router      (src/src/server.ts, lines 677-832)             *)
(* Three specifications share the variables; each one moves the variables  *)
(* of its own component and leaves the others at their initial value.      *)
(***************************************************************************)
EXTENDS Integers, Sequences, FiniteSets, TLC

VARIABLES
    clock,      \* Date.now()
    events,     \* InMemoryEventStore.events : eventId -> [streamId, message]
    stored,     \* history of storeEvent calls, in call order
    rp,         \* the replayEventsAfter call in progress / last finished
    ready,      \* ActualClient.ready : index of the init attempt it refers to
    shutdownPromise, \* ActualClient.shutdownPromise : index of attempt, 0 = undefined
    inits,      \* the promises returned by initActualApi, in creation order
    sds,        \* the promises created by shutdown(), in creation order
    callers,    \* the callers of the client's public methods
    initConfig, \* ActualClient.initConfig
    apiOpen,    \* whether the remote connection (api.init .. api.shutdown) is open
    transports, \* server.ts `transports` : sessionId -> transport
    tr,         \* the StreamableHTTPServerTransport objects created so far
    tstore,     \* the InMemoryEventStore of each transport
    reqs,       \* the HTTP requests being handled
    resp,       \* the response written by the step just taken, if any
    nReq,       \* number of requests received so far
    uuids,      \* number of randomUUID() results handed out for sessions
    gs          \* the gracefulShutdown call: where it stands, what it has closed

storeVars == <<clock, events, stored, rp>>
clientVars == <<ready, shutdownPromise, inits, sds, callers, initConfig, apiOpen>>
serverVars == <<transports, tr, tstore, reqs, resp, nReq, uuids, gs>>
vars == <<clock, events, stored, rp, ready, shutdownPromise, inits, sds, callers,
          initConfig, apiOpen, transports, tr, tstore, reqs, resp, nReq, uuids, gs>>

(***************************************************************************)
(* Strings are sequences of characters; a character is its rank in the     *)
(* collation String.prototype.localeCompare uses: white space sorts before *)
(* punctuation ('_'), punctuation before digits, digits before letters.    *)
(***************************************************************************)
SP == 0
US == 1
D0 == 2
LA == 12
LB == 13

\* bounds of the event-store model
MaxTicks == 1
MaxEvents == 3

ClockStart == 10


\* Number.prototype.toString (decimal), as the template literal applies it to Date.now()
RECURSIVE Digits(_)
Digits(n) == IF n < 10 THEN <<D0 + n>> ELSE Digits(n \div 10) \o <<D0 + (n % 10)>>

\* String.prototype.trim
RECURSIVE TrimLeft(_)
TrimLeft(s) == IF s # <<>> /\ Head(s) = SP THEN TrimLeft(Tail(s)) ELSE s
RECURSIVE TrimRight(_)
TrimRight(s) ==
    IF s # <<>> /\ s[Len(s)] = SP THEN TrimRight(SubSeq(s, 1, Len(s) - 1)) ELSE s
Trim(s) == TrimRight(TrimLeft(s))

\* a.localeCompare(b) < 0
RECURSIVE LocaleLess(_, _)
LocaleLess(a, b) ==
    IF a = <<>> THEN b # <<>>
    ELSE IF b = <<>> THEN FALSE
    ELSE IF Head(a) # Head(b) THEN Head(a) < Head(b)
    ELSE LocaleLess(Tail(a), Tail(b))

\* eventId.split('_')[0]
RECURSIVE FirstPart(_)
FirstPart(s) ==
    IF s = <<>> \/ Head(s) = US THEN <<>> ELSE <<Head(s)>> \o FirstPart(Tail(s))

\* Math.random().toString(36).substring(2, 10): a short base-36 string, "a" or "b"
Suffixes == {<<LA>>, <<LB>>}

\* stream identifiers the transport hands to storeEvent: "a" and "_a"
\* (the transport's stand-alone GET stream is named "_GET_stream")
StreamIds == {<<LA>>, <<US, LA>>}

generateEventId(streamId, now, rnd) ==
    streamId \o <<US>> \o Digits(now) \o <<US>> \o rnd

getStreamIdFromEventId(eventId) == FirstPart(eventId)

\* this.events.set(eventId, { streamId, message })
MapSet(m, k, v) == [x \in (DOMAIN m) \cup {k} |-> IF x = k THEN v ELSE m[x]]

storeEvent(ev, streamId, message, now, rnd) ==
    MapSet(ev, generateEventId(streamId, now, rnd),
           [streamId |-> streamId, message |-> message])

\* [...this.events.entries()].sort((a, b) => a[0].localeCompare(b[0]))
RECURSIVE SortIds(_)
SortIds(S) ==
    IF S = {} THEN <<>>
    ELSE LET m == CHOOSE x \in S : \A y \in S \ {x} : LocaleLess(x, y)
         IN <<m>> \o SortIds(S \ {m})
sortedEvents(ev) == SortIds(DOMAIN ev)

\* the for loop of replayEventsAfter over the sorted snapshot: the calls of send
RECURSIVE ReplayLoop(_, _, _, _, _)
ReplayLoop(ev, sorted, lastEventId, streamId, foundLastEvent) ==
    IF sorted = <<>> THEN <<>>
    ELSE LET eventId == Head(sorted)
             rest == Tail(sorted)
         IN IF ev[eventId].streamId # streamId
            THEN ReplayLoop(ev, rest, lastEventId, streamId, foundLastEvent)
            ELSE IF eventId = lastEventId
            THEN ReplayLoop(ev, rest, lastEventId, streamId, TRUE)
            ELSE IF foundLastEvent
            THEN <<[eventId |-> eventId, message |-> ev[eventId].message]>>
                 \o ReplayLoop(ev, rest, lastEventId, streamId, TRUE)
            ELSE ReplayLoop(ev, rest, lastEventId, streamId, FALSE)

\* the mutant of ReplayGuard that forgets the this.events.has(lastEventId) test
ReplayGuard_NoHas(ev, lastEventId) == Trim(lastEventId) = <<>>

\* line 30: lastEventId.trim() === '' || !this.events.has(lastEventId)
ReplayGuard(ev, lastEventId) ==
    Trim(lastEventId) = <<>> \/ lastEventId \notin DOMAIN ev

\* replayEventsAfter up to its first await: the early returns, or the sends to make
\* and the value to return after them
replayEventsAfter(ev, lastEventId) ==
    IF ReplayGuard(ev, lastEventId)
    THEN [early |-> TRUE, queue |-> <<>>, ret |-> <<>>]
    ELSE LET streamId == getStreamIdFromEventId(lastEventId)
         IN IF streamId = <<>>
            THEN [early |-> TRUE, queue |-> <<>>, ret |-> <<>>]
            ELSE [early |-> FALSE,
                  queue |-> ReplayLoop(ev, sortedEvents(ev), lastEventId, streamId, FALSE),
                  ret |-> streamId]

(***************************************************************************)
(* The event store as a state machine                                      *)
(***************************************************************************)
EmptyMap == [x \in {} |-> 0]

\* no replay was asked for. `sent` lists the calls of the sink; `got` lists what the
\* client of the stream has received since: the sink's calls and what the transport
\* forwarded live
RpIdle == [pc |-> "idle", last |-> <<>>, known |-> FALSE, n |-> 0,
           queue |-> <<>>, sent |-> <<>>, got |-> <<>>, ret |-> <<>>]

\* identifiers a client may present that the store never issued
ForeignIds == {<<>>, <<SP>>, <<SP, SP>>, <<LA, US, D0, US, LA>>, <<US, D0>>}

StoreInit ==
    /\ clock = ClockStart
    /\ events = EmptyMap
    /\ stored = <<>>
    /\ rp = RpIdle

\* the clock advances between two calls
Tick ==
    /\ clock < ClockStart + MaxTicks
    /\ clock' = clock + 1
    /\ UNCHANGED <<events, stored, rp, clientVars, serverVars>>

\* whether the transport writes an event it has just stored to the client of the
\* replay: it does once the replay has returned the event's stream (the live
\* forwarding that follows a replay); while the replay is suspended in a send the
\* transport, which is not part of this repository, may or may not have the stream
\* connected, and `live` is its choice
Forwards(streamId, live) ==
    IF rp.pc = "done" THEN rp.ret = streamId /\ rp.ret # <<>>
    ELSE IF rp.pc = "sending" THEN rp.ret = streamId /\ live
    ELSE FALSE

\* the transport produces a message: storeEvent(streamId, message), lines 20-24,
\* and then the write of the message to the client if the stream is connected
StoreEvent(streamId, rnd, live) ==
    /\ Len(stored) < MaxEvents
    /\ (rp.pc # "sending" \/ rp.ret # streamId) => ~live
    /\ LET message == Len(stored) + 1
           eventId == generateEventId(streamId, clock, rnd)
       IN /\ events' = storeEvent(events, streamId, message, clock, rnd)
          /\ stored' = Append(stored, [streamId |-> streamId, eventId |-> eventId,
                                       message |-> message])
          /\ rp' = IF Forwards(streamId, live)
                   THEN [rp EXCEPT !.got = Append(@, [eventId |-> eventId,
                                                      message |-> message])]
                   ELSE rp
    /\ UNCHANGED <<clock, clientVars, serverVars>>

\* replayEventsAfter(lastEventId, { send }) up to its first await, lines 26-53:
\* the call returns at once when it has nothing to send, and is suspended in its
\* first `await send(eventId, message)` otherwise
ReplayStart(lastEventId) ==
    /\ rp.pc \in {"idle", "done"}
    /\ LET r == replayEventsAfter(events, lastEventId)
           first == IF r.queue = <<>> THEN <<>> ELSE <<Head(r.queue)>>
       IN rp' = [pc |-> IF r.queue = <<>> THEN "done" ELSE "sending",
                 last |-> lastEventId,
                 known |-> lastEventId \in DOMAIN events,
                 n |-> Len(stored),
                 queue |-> IF r.queue = <<>> THEN <<>> ELSE Tail(r.queue),
                 sent |-> first, got |-> first, ret |-> r.ret]
    /\ UNCHANGED <<clock, events, stored, clientVars, serverVars>>

\* the awaited send settles and the loop reaches the next
\* `await send(eventId, message)`, line 53
ReplaySend ==
    /\ rp.pc = "sending"
    /\ rp.queue # <<>>
    /\ rp' = [rp EXCEPT !.queue = Tail(@), !.sent = Append(@, Head(rp.queue)),
                        !.got = Append(@, Head(rp.queue))]
    /\ UNCHANGED <<clock, events, stored, clientVars, serverVars>>

\* the awaited send settles and the loop ends: return streamId, line 56
ReplayReturn ==
    /\ rp.pc = "sending"
    /\ rp.queue = <<>>
    /\ rp' = [rp EXCEPT !.pc = "done"]
    /\ UNCHANGED <<clock, events, stored, clientVars, serverVars>>

StoreNext ==
    \/ Tick
    \/ \E s \in StreamIds, rnd \in Suffixes, live \in BOOLEAN : StoreEvent(s, rnd, live)
    \/ \E id \in (DOMAIN events) \cup ForeignIds : ReplayStart(id)
    \/ ReplaySend
    \/ ReplayReturn

(***************************************************************************)
(* ActualClient (src/unnamed/part_002, lines 33-105)                       *)
(* A promise is an entry of `inits` or `sds`; `ready` and `shutdownPromise`*)
(* hold the index of the promise they refer to, and whoever awaits one     *)
(* keeps the index it read when it started to wait.                        *)
(***************************************************************************)
\* bounds of the backend-client model
MaxCallers == 2
MaxCalls == 3

Callers == 1..MaxCallers

\* values of ACTUAL_SERVER_URL: '', ' ' and a URL; of the two secrets: '' and a value
ServerUrls == {<<>>, <<SP>>, <<LA>>}
Secrets == {<<>>, <<LA>>}

\* the mutant of initActualApi that does not test the configuration
initActualApi_NoCheck(config) ==
    [state |-> "pending", pc |-> "mkdir", error |-> "none", calls |-> {"mkdir"}]

\* initActualApi up to its first await, lines 55-62
initActualApi(config) ==
    LET hasServerUrl == Trim(config.serverURL) # <<>>
        hasPassword == config.password # <<>>
        hasSyncId == config.syncId # <<>>
    IN IF ~hasServerUrl \/ ~hasPassword \/ ~hasSyncId
       THEN [state |-> "rejected", pc |-> "end", error |-> "config", calls |-> {}]
       ELSE [state |-> "pending", pc |-> "mkdir", error |-> "none", calls |-> {"mkdir"}]

CallerIdle == [op |-> "none", pc |-> "idle", on |-> 0, outcome |-> "none", k |-> 0,
               joined |-> 0, started |-> 0, afterSd |-> FALSE, issued |-> FALSE,
               error |-> "none"]

\* the mutant of Awaited that takes a failed initialization for a finished one
Awaited_Swallow(p) == IF p.state = "rejected" THEN "fulfilled" ELSE p.state

\* the mutant of Awaited that does not wait for a pending promise
Awaited_Eager(p) == IF p.state = "pending" THEN "fulfilled" ELSE p.state

\* `await this.ready` (line 79): pending while the promise is, then its outcome
Awaited(p) == p.state

\* the constructor, lines 44-53
ClientInit ==
    /\ initConfig \in [serverURL : ServerUrls, password : Secrets, syncId : Secrets]
    /\ inits = <<initActualApi(initConfig)>>
    /\ ready = 1
    /\ shutdownPromise = 0
    /\ sds = <<>>
    /\ callers = [c \in Callers |-> CallerIdle]
    /\ apiOpen = FALSE

RECURSIVE SumCalls(_)
SumCalls(c) == IF c = 0 THEN 0 ELSE callers[c].k + SumCalls(c - 1)
TotalCalls == SumCalls(MaxCallers)

CanCall(c) == callers[c].pc \in {"idle", "done"} /\ TotalCalls < MaxCalls

\* `await mkdir(config.dataDir, ...)` settles (line 62); then api.init is invoked (63)
InitMkdirDone(k, ok) ==
    /\ k \in DOMAIN inits
    /\ inits[k].pc = "mkdir"
    /\ inits' = [inits EXCEPT ![k] =
                   IF ok THEN [@ EXCEPT !.pc = "init", !.calls = @ \cup {"init"}]
                   ELSE [@ EXCEPT !.pc = "end", !.state = "rejected", !.error = "io"]]
    /\ UNCHANGED <<ready, shutdownPromise, sds, callers, initConfig, apiOpen,
                   storeVars, serverVars>>

\* `await api.init(...)` settles (lines 63-68); then the budget download starts (70-73)
InitApiInitDone(k, ok) ==
    /\ k \in DOMAIN inits
    /\ inits[k].pc = "init"
    /\ inits' = [inits EXCEPT ![k] =
                   IF ~ok THEN [@ EXCEPT !.pc = "end", !.state = "rejected",
                                         !.error = "connect"]
                   ELSE IF initConfig.syncId # <<>>
                   THEN [@ EXCEPT !.pc = "download", !.calls = @ \cup {"download"}]
                   ELSE [@ EXCEPT !.pc = "end", !.state = "fulfilled"]]
    /\ apiOpen' = (ok \/ apiOpen)
    /\ UNCHANGED <<ready, shutdownPromise, sds, callers, initConfig,
                   storeVars, serverVars>>

\* `await api.downloadBudget(...)` settles (lines 71-75)
InitDownloadDone(k, ok) ==
    /\ k \in DOMAIN inits
    /\ inits[k].pc = "download"
    /\ inits' = [inits EXCEPT ![k] =
                   IF ok THEN [@ EXCEPT !.pc = "end", !.state = "fulfilled"]
                   ELSE [@ EXCEPT !.pc = "end", !.state = "rejected",
                                  !.error = "connect"]]
    /\ UNCHANGED <<ready, shutdownPromise, sds, callers, initConfig, apiOpen,
                   storeVars, serverVars>>

\* getAccounts() up to `await this.ready`, lines 102-103 and 78-79
CallGetAccounts(c) ==
    /\ CanCall(c)
    /\ callers' = [callers EXCEPT ![c] =
          [op |-> "getAccounts", pc |-> "awaitReady", on |-> ready,
           outcome |-> "none", k |-> @.k + 1, joined |-> 0, started |-> 0,
           afterSd |-> \E j \in DOMAIN sds : sds[j].seen = "returned",
           issued |-> FALSE, error |-> "none"]]
    /\ sds' = [j \in DOMAIN sds |->
                 IF sds[j].seen = "returned" THEN [sds[j] EXCEPT !.seen = "used"]
                 ELSE sds[j]]
    /\ UNCHANGED <<ready, shutdownPromise, inits, initConfig, apiOpen,
                   storeVars, serverVars>>

\* ensureReady() settles in getAccounts: api.getAccounts() is invoked (line 104), or
\* the rejection of the awaited promise propagates to the caller
GetAccountsReady(c) ==
    /\ callers[c].op = "getAccounts"
    /\ callers[c].pc = "awaitReady"
    /\ Awaited(inits[callers[c].on]) # "pending"
    /\ callers' = [callers EXCEPT ![c] =
          IF Awaited(inits[callers[c].on]) = "fulfilled"
          THEN [@ EXCEPT !.pc = "remote", !.issued = TRUE]
          ELSE [@ EXCEPT !.pc = "done", !.outcome = "rejected",
                         !.error = inits[callers[c].on].error]]
    /\ UNCHANGED <<ready, shutdownPromise, inits, sds, initConfig, apiOpen,
                   storeVars, serverVars>>

\* `await api.getAccounts()` settles, line 104
GetAccountsDone(c, ok) ==
    /\ callers[c].op = "getAccounts"
    /\ callers[c].pc = "remote"
    /\ callers' = [callers EXCEPT ![c] =
          [@ EXCEPT !.pc = "done",
                    !.outcome = IF ok THEN "resolved" ELSE "rejected",
                    !.error = IF ok THEN "none" ELSE "connect"]]
    /\ UNCHANGED <<ready, shutdownPromise, inits, sds, initConfig, apiOpen,
                   storeVars, serverVars>>

\* the mutant of ShutdownInFlight that never finds a shutdown in flight
ShutdownInFlight_Never(sp) == FALSE

\* line 83: this.shutdownPromise != null
ShutdownInFlight(sp) == sp # 0

\* the shutdown attempt that is pending, 0 when none is
PendingShutdown ==
    LET pend == {j \in DOMAIN sds : sds[j].state = "pending"}
    IN IF pend = {} THEN 0 ELSE CHOOSE j \in pend : \A i \in pend : i <= j

\* shutdown() up to its first await, lines 82-88 and 99; op "shutdown" is a direct
\* call, op "apply" the call made by the apply-budget-changes tool
\* (src/unnamed/part_001, lines 472-475)
CallShutdown(c, op) ==
    /\ CanCall(c)
    /\ IF ShutdownInFlight(shutdownPromise)
       THEN /\ callers' = [callers EXCEPT ![c] =
                  [op |-> op, pc |-> "awaitSd", on |-> shutdownPromise,
                   outcome |-> "none", k |-> @.k + 1, joined |-> PendingShutdown,
                   started |-> 0, afterSd |-> FALSE, issued |-> FALSE,
                   error |-> "none"]]
            /\ UNCHANGED <<sds, shutdownPromise>>
       ELSE /\ sds' = Append(sds, [state |-> "pending", pc |-> "awaitReady",
                                   on |-> ready, closes |-> 0, seen |-> "no"])
            /\ shutdownPromise' = Len(sds) + 1
            /\ callers' = [callers EXCEPT ![c] =
                  [op |-> op, pc |-> "awaitSd", on |-> Len(sds) + 1,
                   outcome |-> "none", k |-> @.k + 1, joined |-> PendingShutdown,
                   started |-> Len(sds) + 1, afterSd |-> FALSE, issued |-> FALSE,
                   error |-> "none"]]
    /\ UNCHANGED <<ready, inits, initConfig, apiOpen, storeVars, serverVars>>

\* `await this.ensureReady()` settles inside the shutdown (line 88): api.shutdown() is
\* invoked (line 90), or the rejection ends the attempt before lines 89-97
SdReady(j) ==
    /\ j \in DOMAIN sds
    /\ sds[j].pc = "awaitReady"
    /\ Awaited(inits[sds[j].on]) # "pending"
    /\ sds' = [sds EXCEPT ![j] =
                 IF Awaited(inits[sds[j].on]) = "fulfilled"
                 THEN [@ EXCEPT !.pc = "apiShutdown", !.closes = @ + 1]
                 ELSE [@ EXCEPT !.pc = "end", !.state = "rejected"]]
    /\ UNCHANGED <<ready, shutdownPromise, inits, callers, initConfig, apiOpen,
                   storeVars, serverVars>>

\* the mutant of ShutdownCatch that lets the failure of the close propagate
ShutdownCatch_Rethrow(ok) == IF ok THEN "continue" ELSE "throw"

\* the try / catch around api.shutdown(), lines 89-94: a failure is logged
ShutdownCatch(ok) == "continue"

\* `await api.shutdown()` settles; its failure is logged (lines 90-94), then ready is
\* reset and the marker cleared (lines 96-97). A failed close leaves the connection
\* open or closed.
SdApiShutdownDone(j, ok, open) ==
    /\ j \in DOMAIN sds
    /\ sds[j].pc = "apiShutdown"
    /\ apiOpen' = IF ok THEN FALSE ELSE (open /\ apiOpen)
    /\ IF ShutdownCatch(ok) = "continue"
       THEN /\ inits' = Append(inits, initActualApi(initConfig))
            /\ ready' = Len(inits) + 1
            /\ shutdownPromise' = 0
            /\ sds' = [sds EXCEPT ![j] = [@ EXCEPT !.pc = "end", !.state = "fulfilled"]]
       ELSE /\ sds' = [sds EXCEPT ![j] = [@ EXCEPT !.pc = "end", !.state = "rejected"]]
            /\ UNCHANGED <<inits, ready, shutdownPromise>>
    /\ UNCHANGED <<callers, initConfig, storeVars, serverVars>>

\* `await this.shutdownPromise` settles in a caller of shutdown(), lines 84 and 99
ShutdownReturn(c) ==
    /\ callers[c].op \in {"shutdown", "apply"}
    /\ callers[c].pc = "awaitSd"
    /\ sds[callers[c].on].state # "pending"
    /\ callers' = [callers EXCEPT ![c] =
          [@ EXCEPT !.pc = "done",
                    !.outcome = IF sds[callers[c].on].state = "fulfilled"
                                THEN "resolved" ELSE "rejected"]]
    /\ sds' = [sds EXCEPT ![callers[c].on] =
                 IF @.state = "fulfilled" /\ @.seen = "no"
                 THEN [@ EXCEPT !.seen = "returned"] ELSE @]
    /\ UNCHANGED <<ready, shutdownPromise, inits, initConfig, apiOpen,
                   storeVars, serverVars>>

ClientNext ==
    \/ \E k \in 1..(MaxCalls + 1), ok \in BOOLEAN : InitMkdirDone(k, ok)
    \/ \E k \in 1..(MaxCalls + 1), ok \in BOOLEAN : InitApiInitDone(k, ok)
    \/ \E k \in 1..(MaxCalls + 1), ok \in BOOLEAN : InitDownloadDone(k, ok)
    \/ \E c \in Callers : CallGetAccounts(c)
    \/ \E c \in Callers : GetAccountsReady(c)
    \/ \E c \in Callers, ok \in BOOLEAN : GetAccountsDone(c, ok)
    \/ \E c \in Callers, op \in {"shutdown", "apply"} : CallShutdown(c, op)
    \/ \E j \in 1..MaxCalls : SdReady(j)
    \/ \E j \in 1..MaxCalls, ok \in BOOLEAN, open \in BOOLEAN : SdApiShutdownDone(j, ok, open)
    \/ \E c \in Callers : ShutdownReturn(c)

(***************************************************************************)
(* The /mcp router (src/src/server.ts, lines 677-801)                      *)
(* A request is handled in steps that end at an await. What the SDK's      *)
(* transport does inside handleRequest is the environment: it generates    *)
(* the session id and runs onsessioninitialized, stores the messages it    *)
(* sends in its event store, replays on a GET that carries Last-Event-ID,  *)
(* closes on a DELETE, answers with a status of its own, or throws.        *)
(* `reqs` holds the requests whose handler is suspended at an await, and   *)
(* `resp` the response of the handler that finished in the step just       *)
(* taken, if one did.                                                      *)
(***************************************************************************)
\* bounds of the router model
MaxTransports == 2
MaxRequests == 3
MaxSessionEvents == 2

\* the mcp-session-id header: undefined, '', or a session identifier 1, 2, ...
NoHeader == -1
EmptyHeader == 0

\* two requests may be in flight at a time
Slots == {1, 2}
Headers == {NoHeader, EmptyHeader} \cup (1..MaxTransports)

ReqIdle == [pc |-> "idle", verb |-> "none", t |-> 0]

\* no replay was made
NoReplay == [session |-> NoHeader, after |-> <<>>, msgs |-> <<>>]

NoResp == [verb |-> "none", header |-> NoHeader, init |-> FALSE, status |-> 0,
           error |-> "none", replay |-> NoReplay]

\* the response to request q, written when its handler's await has settled
Outcome(q, status, error, replay) ==
    [verb |-> q.verb, header |-> NoHeader, init |-> q.pc \in {"connect", "initHandle"},
     status |-> status, error |-> error, replay |-> replay]

\* the response res.status(400).json(...) of a handler that awaits nothing
Refusal(verb, header, init, error) ==
    [verb |-> verb, header |-> header, init |-> init, status |-> 400,
     error |-> error, replay |-> NoReplay]

\* the state when the server starts to listen
\* gracefulShutdown has not been called: no signal was received
GsIdle == [pc |-> "idle", cur |-> NoHeader, tried |-> {}, backend |-> "none"]

ServerInit ==
    /\ transports = EmptyMap
    /\ tr = <<>>
    /\ tstore = <<>>
    /\ reqs = [r \in Slots |-> ReqIdle]
    /\ resp = NoResp
    /\ nReq = 0
    /\ uuids = 0
    /\ gs = GsIdle

\* transports.has(sid)
RegistryHas(reg, sid) == sid \in DOMAIN reg

\* transports.delete(sid)
MapDelete(m, k) == [x \in (DOMAIN m) \ {k} |-> m[x]]

\* the mutant of PostBranch that tests for an initialize payload before the header
PostBranch_InitFirst(header, init, reg) ==
    IF init THEN "create"
    ELSE IF header # NoHeader /\ header # EmptyHeader
    THEN (IF RegistryHas(reg, header) THEN "forward" ELSE "notInitialized")
    ELSE "noSession"

\* the mutant of PostBranch that creates a session for any request without a header
PostBranch_NoInitTest(header, init, reg) ==
    IF header # NoHeader /\ header # EmptyHeader
    THEN (IF RegistryHas(reg, header) THEN "forward" ELSE "notInitialized")
    ELSE "create"

\* the if / else-if / else of mcpPostHandler, lines 686-730
PostBranch(header, init, reg) ==
    IF header # NoHeader /\ header # EmptyHeader
    THEN (IF RegistryHas(reg, header) THEN "forward" ELSE "notInitialized")
    ELSE IF (header = NoHeader \/ header = EmptyHeader) /\ init THEN "create"
    ELSE "noSession"

\* the mutant of GetDeleteBranch that sets a session up for an identifier it does not know
GetDeleteBranch_Creates(header, reg) ==
    IF header = NoHeader \/ header = EmptyHeader THEN "invalid"
    ELSE IF RegistryHas(reg, header) THEN "forward"
    ELSE "create"

\* the two tests of mcpGetHandler (lines 745-761) and mcpDeleteHandler (775-787)
GetDeleteBranch(header, reg) ==
    IF header = NoHeader \/ header = EmptyHeader \/ ~RegistryHas(reg, header)
    THEN "invalid"
    ELSE IF header \notin DOMAIN reg THEN "invalid"
    ELSE "forward"

\* the header names the session of a transport that has been closed
ClosedSession(header) ==
    \E t \in DOMAIN tr : tr[t].closed /\ tr[t].sessionId = header

\* a request arrives and its handler runs up to its first await or to its response
Arrive(r, verb, header, init, branch) ==
    /\ reqs[r].pc = "idle"
    /\ \A q \in Slots : q < r => reqs[q].pc # "idle"
    /\ nReq < MaxRequests
    /\ nReq' = nReq + 1
    /\ CASE branch = "forward" ->
              \* existingTransport.handleRequest(req, res, req.body) is awaited
              /\ reqs' = [reqs EXCEPT ![r] =
                    [pc |-> "handle", verb |-> verb, t |-> transports[header]]]
              /\ resp' = NoResp
              /\ UNCHANGED <<tr, tstore>>
         [] branch = "create" ->
              \* new InMemoryEventStore, new transport, onclose set, getServer(),
              \* server.connect(newTransport) is awaited (lines 699-718)
              /\ Len(tr) < MaxTransports
              /\ tr' = Append(tr, [sessionId |-> NoHeader, closed |-> FALSE])
              /\ tstore' = Append(tstore, EmptyMap)
              /\ reqs' = [reqs EXCEPT ![r] =
                    [pc |-> "connect", verb |-> verb, t |-> Len(tr) + 1]]
              /\ resp' = NoResp
         [] branch = "notInitialized" ->
              /\ resp' = Refusal(verb, header, init,
                                 "Bad Request: Transport not initialized")
              /\ UNCHANGED <<tr, tstore, reqs>>
         [] branch = "noSession" ->
              /\ resp' = Refusal(verb, header, init,
                                 "Bad Request: No valid session ID provided")
              /\ UNCHANGED <<tr, tstore, reqs>>
         [] branch = "invalid" ->
              /\ resp' = Refusal(verb, header, init, "Invalid or missing session ID")
              /\ UNCHANGED <<tr, tstore, reqs>>
    /\ UNCHANGED <<transports, uuids, gs, storeVars, clientVars>>

\* mcpPostHandler up to its first await, lines 679-730
McpPostHandler(r, header, init) ==
    Arrive(r, "POST", header, init, PostBranch(header, init, transports))

\* mcpGetHandler up to its await, lines 743-762
McpGetHandler(r, header) ==
    Arrive(r, "GET", header, FALSE, GetDeleteBranch(header, transports))

\* mcpDeleteHandler up to its await, lines 773-788
McpDeleteHandler(r, header) ==
    Arrive(r, "DELETE", header, FALSE, GetDeleteBranch(header, transports))

\* MCP_AUTH_MODE, and what a request carries as Authorization: no header, a bearer
\* token the verifier refuses, or one it accepts
AuthModes == {"none", "bearer", "oauth"}
Tokens == {"absent", "wrong", "valid"}

\* the mutant of Gate that lets every request through
Gate_Open(mode, token) == "pass"

\* the routes of /mcp (lines 765-771, 797-801): with mode none the handler is the
\* only one of its route; otherwise authContext.middleware (requireBearerAuth over
\* verifyAccessToken, src/src/auth.ts lines 153-169 and 245-249) runs first and calls
\* the handler only for a token the verifier accepts
Gate(mode, token) ==
    IF mode = "none" THEN "pass"
    ELSE IF token = "valid" THEN "pass"
    ELSE "reject"

\* every (mode, credential) pair a request can arrive under
GateInputs == AuthModes \X Tokens

\* one pair per outcome of the gate: two requests the gate treats alike take the
\* same step, so the transition relation enumerates one of them
Credentials ==
    {CHOOSE p \in GateInputs : Gate(p[1], p[2]) = o :
        o \in {Gate(q[1], q[2]) : q \in GateInputs}}

\* the middleware answers 401 (or another error status of its own) and the handler
\* is not called
Reject ==
    /\ nReq < MaxRequests
    /\ nReq' = nReq + 1
    /\ resp' = [NoResp EXCEPT !.status = 401, !.error = "unauthorized"]
    /\ UNCHANGED <<transports, tr, tstore, reqs, uuids, gs, storeVars, clientVars>>

\* app.post('/mcp', ...), lines 766 and 769
PostRoute(mode, token) ==
    IF Gate(mode, token) = "pass"
    THEN \E r \in Slots, h \in Headers, init \in BOOLEAN : McpPostHandler(r, h, init)
    ELSE Reject

\* app.get('/mcp', ...), lines 767 and 770
GetRoute(mode, token) ==
    IF Gate(mode, token) = "pass"
    THEN \E r \in Slots, h \in Headers : McpGetHandler(r, h)
    ELSE Reject

\* app.delete('/mcp', ...), lines 798 and 800
DeleteRoute(mode, token) ==
    IF Gate(mode, token) = "pass"
    THEN \E r \in Slots, h \in Headers : McpDeleteHandler(r, h)
    ELSE Reject

\* `await server.connect(newTransport)` settles (line 718); then
\* newTransport.handleRequest is invoked (719), or the catch answers 500 (731-739)
ConnectDone(r, ok) ==
    /\ reqs[r].pc = "connect"
    /\ IF ok
       THEN /\ reqs' = [reqs EXCEPT ![r].pc = "initHandle"]
            /\ resp' = NoResp
       ELSE /\ resp' = Outcome(reqs[r], 500, "Internal server error", NoReplay)
            /\ reqs' = [reqs EXCEPT ![r] = ReqIdle]
    /\ UNCHANGED <<transports, tr, tstore, nReq, uuids, gs, storeVars, clientVars>>

\* inside handleRequest: the transport takes its session id from sessionIdGenerator
\* (randomUUID, line 701: a value never handed out before) and runs
\* onsessioninitialized (lines 703-706)
TransportInitialize(r) ==
    /\ reqs[r].pc = "initHandle"
    /\ tr[reqs[r].t].sessionId = NoHeader
    /\ uuids' = uuids + 1
    /\ tr' = [tr EXCEPT ![reqs[r].t].sessionId = uuids + 1]
    /\ transports' = MapSet(transports, uuids + 1, reqs[r].t)
    /\ resp' = NoResp
    /\ UNCHANGED <<tstore, reqs, nReq, gs, storeVars, clientVars>>

\* `await newTransport.handleRequest(...)` returns; lines 720-723 register the session
InitHandleReturn(r) ==
    /\ reqs[r].pc = "initHandle"
    /\ LET sid == tr[reqs[r].t].sessionId
       IN /\ transports' = IF sid # NoHeader /\ sid # EmptyHeader
                           THEN MapSet(transports, sid, reqs[r].t)
                           ELSE transports
          /\ resp' = Outcome(reqs[r], IF sid # NoHeader THEN 200 ELSE 406, "none",
                             NoReplay)
    /\ reqs' = [reqs EXCEPT ![r] = ReqIdle]
    /\ UNCHANGED <<tr, tstore, nReq, uuids, gs, storeVars, clientVars>>

\* the onclose callback set on the transport, lines 709-715
OnClose(reg, t) ==
    LET sid == tr[t].sessionId
    IN IF sid # NoHeader /\ sid # EmptyHeader /\ RegistryHas(reg, sid)
       THEN MapDelete(reg, sid)
       ELSE reg

\* the mutant of StoreOf in which all transports share one event store
StoreOf_Shared(t) == 1

\* the event store of a transport: the one created with it, lines 699-702
StoreOf(t) == t

\* `await transport.handleRequest(...)` returns for a request on a known session
\* (lines 689, 762, 788); the transport has answered with `status`. On a GET whose
\* Last-Event-ID header is `last` it has replayed from its event store; on a DELETE
\* it answers 200 after it has closed itself, which runs onclose
HandleReturn(r, status, last) ==
    /\ reqs[r].pc = "handle"
    /\ last # <<>> => (reqs[r].verb = "GET" /\ status = 200)
    /\ LET t == reqs[r].t
           closes == reqs[r].verb = "DELETE" /\ status = 200
       IN /\ resp' = Outcome(reqs[r], status, "none",
                IF last # <<>>
                THEN [session |-> tr[t].sessionId, after |-> last,
                      msgs |-> replayEventsAfter(tstore[StoreOf(t)], last).queue]
                ELSE NoReplay)
          /\ tr' = IF closes THEN [tr EXCEPT ![t].closed = TRUE] ELSE tr
          /\ transports' = IF closes THEN OnClose(transports, t) ELSE transports
    /\ reqs' = [reqs EXCEPT ![r] = ReqIdle]
    /\ UNCHANGED <<tstore, nReq, uuids, gs, storeVars, clientVars>>

\* the mutant of CatchRegistry that drops the session of the request that failed
CatchRegistry_Teardown(reg, t) == MapDelete(reg, tr[t].sessionId)

\* what the catch blocks (lines 731-740, 789-794) do to the registry: nothing
CatchRegistry(reg, t) == reg

\* `await ...handleRequest(...)` throws. POST and DELETE answer 500 when no header
\* was sent yet (lines 731-739, 789-793); mcpGetHandler has no catch
HandleThrow(r, headersSent) ==
    /\ reqs[r].pc \in {"handle", "initHandle"}
    /\ resp' = IF reqs[r].verb = "GET"
               THEN Outcome(reqs[r], IF headersSent THEN 200 ELSE 0,
                            "unhandled rejection", NoReplay)
               ELSE IF headersSent
               THEN Outcome(reqs[r], 200, "logged", NoReplay)
               ELSE Outcome(reqs[r], 500,
                            IF reqs[r].verb = "POST" THEN "Internal server error"
                            ELSE "Error processing session termination", NoReplay)
    /\ reqs' = [reqs EXCEPT ![r] = ReqIdle]
    /\ transports' = CatchRegistry(transports, reqs[r].t)
    /\ UNCHANGED <<tr, tstore, nReq, uuids, gs, storeVars, clientVars>>

\* the events held by all the event stores
RECURSIVE CountEvents(_)
CountEvents(t) == IF t = 0 THEN 0 ELSE Cardinality(DOMAIN tstore[t]) + CountEvents(t - 1)

\* the transport of a live session sends a message on one of its streams and stores
\* it first: eventStore.storeEvent(streamId, message). The message is tagged with the
\* session it was produced under
TransportStore(t, streamId, rnd) ==
    /\ t \in DOMAIN tr
    /\ tr[t].sessionId # NoHeader
    /\ ~tr[t].closed
    /\ CountEvents(Len(tstore)) < MaxSessionEvents
    /\ tstore' = [tstore EXCEPT ![StoreOf(t)] =
                    storeEvent(@, streamId, tr[t].sessionId, clock, rnd)]
    /\ resp' = NoResp
    /\ UNCHANGED <<transports, tr, reqs, nReq, uuids, gs, storeVars, clientVars>>

\* the transport of a session closes without a DELETE and runs onclose
TransportClose(t) ==
    /\ t \in DOMAIN tr
    /\ tr[t].sessionId # NoHeader
    /\ ~tr[t].closed
    /\ tr' = [tr EXCEPT ![t].closed = TRUE]
    /\ transports' = OnClose(transports, t)
    /\ resp' = NoResp
    /\ UNCHANGED <<tstore, reqs, nReq, uuids, gs, storeVars, clientVars>>

\* the stream a transport stores its messages under
TransportStreams == {<<LA>>}

\* what a client may send as Last-Event-ID: nothing, or an identifier any store issued
KnownEventIds == UNION {DOMAIN tstore[t] : t \in DOMAIN tstore}

ServerNext ==
    \/ \E p \in Credentials : PostRoute(p[1], p[2])
    \/ \E p \in Credentials : GetRoute(p[1], p[2])
    \/ \E p \in Credentials : DeleteRoute(p[1], p[2])
    \/ \E r \in Slots, ok \in BOOLEAN : ConnectDone(r, ok)
    \/ \E r \in Slots : TransportInitialize(r)
    \/ \E r \in Slots : InitHandleReturn(r)
    \/ \E r \in Slots, status \in {200, 404}, last \in KnownEventIds \cup {<<>>} :
          HandleReturn(r, status, last)
    \/ \E r \in Slots, headersSent \in BOOLEAN : HandleThrow(r, headersSent)
    \/ \E t \in 1..MaxTransports, s \in TransportStreams, rnd \in Suffixes :
          TransportStore(t, s, rnd)
    \/ \E t \in 1..MaxTransports : TransportClose(t)

\* SIGINT or SIGTERM: gracefulShutdown starts, lines 811-812 and 831-832. A second
\* signal while the first call runs is not modelled
GsSignal ==
    /\ gs.pc = "idle"
    /\ gs' = [gs EXCEPT !.pc = "loop"]
    /\ resp' = NoResp
    /\ UNCHANGED <<transports, tr, tstore, reqs, nReq, uuids, storeVars, clientVars>>

\* the entries the iterator of `transports.entries()` has still to yield: a Map
\* iterator also yields the entries added while the loop is suspended
GsRemaining == (DOMAIN transports) \ gs.tried

\* one turn of the loop up to its await: transport.close() is called (line 816). A
\* close that succeeds closes the transport and runs its onclose; one that fails
\* leaves both as they were
GsCloseCall(sid, ok) ==
    /\ gs.pc = "loop"
    /\ sid \in GsRemaining
    /\ LET t == transports[sid]
       IN IF ok
          THEN /\ tr' = [tr EXCEPT ![t].closed = TRUE]
               /\ transports' = OnClose(transports, t)
          ELSE UNCHANGED <<tr, transports>>
    /\ gs' = [gs EXCEPT !.pc = IF ok THEN "closing" ELSE "closeFailed", !.cur = sid,
                        !.tried = @ \cup {sid}]
    /\ resp' = NoResp
    /\ UNCHANGED <<tstore, reqs, nReq, uuids, storeVars, clientVars>>

\* `await transport.close()` settles: transports.delete(sessionId) after a close
\* that succeeded (line 817), the catch block after one that failed (818-820)
GsCloseSettle ==
    /\ gs.pc \in {"closing", "closeFailed"}
    /\ transports' = IF gs.pc = "closing" THEN MapDelete(transports, gs.cur)
                     ELSE transports
    /\ gs' = [gs EXCEPT !.pc = "loop", !.cur = NoHeader]
    /\ resp' = NoResp
    /\ UNCHANGED <<tr, tstore, reqs, nReq, uuids, storeVars, clientVars>>

\* the iterator is exhausted: actualClient.shutdown() is called and awaited (line
\* 823). What the call does to the client is the subject of ClientSpec
GsLoopEnd ==
    /\ gs.pc = "loop"
    /\ GsRemaining = {}
    /\ gs' = [gs EXCEPT !.pc = "backend"]
    /\ resp' = NoResp
    /\ UNCHANGED <<transports, tr, tstore, reqs, nReq, uuids, storeVars, clientVars>>

\* the mutant of BackendCatch that lets the rejection leave gracefulShutdown
BackendCatch_Rethrow(ok) == IF ok THEN "continue" ELSE "throw"

\* the try / catch around `await actualClient.shutdown()`, lines 822-826: a
\* rejection is logged
BackendCatch(ok) == "continue"

\* `await actualClient.shutdown()` settles, resolved or rejected (as it is when the
\* initialization of the client had failed), and process.exit(0) runs (line 828);
\* an error that left the function would end it before that line
GsExit(ok) ==
    /\ gs.pc = "backend"
    /\ gs' = [gs EXCEPT !.pc = IF BackendCatch(ok) = "continue" THEN "exited"
                                ELSE "failed",
                        !.backend = IF ok THEN "resolved" ELSE "rejected"]
    /\ resp' = NoResp
    /\ UNCHANGED <<transports, tr, tstore, reqs, nReq, uuids, storeVars, clientVars>>

\* the steps of gracefulShutdown after the signal: each is the continuation of an
\* await that has settled
GsStep ==
    \/ \E sid \in 1..MaxTransports, ok \in BOOLEAN : GsCloseCall(sid, ok)
    \/ GsCloseSettle
    \/ GsLoopEnd
    \/ \E ok \in BOOLEAN : GsExit(ok)

\* the router keeps serving requests until the process exits: gracefulShutdown
\* does not close the HTTP server
ShutdownNext ==
    \/ gs.pc # "exited" /\ ServerNext
    \/ GsSignal
    \/ GsStep

\* gracefulShutdown with the requests that open sessions and the transports that
\* close: the steps of the router that add or remove registry entries
ExitNext ==
    \/ gs.pc # "exited" /\ \E r \in Slots : McpPostHandler(r, NoHeader, TRUE)
    \/ gs.pc # "exited" /\ \E r \in Slots, ok \in BOOLEAN : ConnectDone(r, ok)
    \/ gs.pc # "exited" /\ \E r \in Slots : TransportInitialize(r)
    \/ gs.pc # "exited" /\ \E r \in Slots : InitHandleReturn(r)
    \/ gs.pc # "exited" /\ \E t \in 1..MaxTransports : TransportClose(t)
    \/ GsSignal
    \/ GsStep

(***************************************************************************)
(* Claims about the event store                                            *)
(***************************************************************************)
Messages(q) == [i \in 1..Len(q) |-> q[i].message]

\* the events of stored[k]'s stream stored after it, among the first n calls
LaterOfStream(k, n) ==
    LET SameStream(e) == e.streamId = stored[k].streamId
    IN Messages(SelectSeq(SubSeq(stored, k + 1, n), SameStream))

\* no two of the first n storeEvent calls returned the same identifier
DistinctIds(n) ==
    \A i, j \in 1..n : i # j => stored[i].eventId # stored[j].eventId

HasSeparator(s) == \E i \in 1..Len(s) : s[i] = US

\* C1: a replay after the identifier of the k-th stored event forwards exactly the
\* events of the same stream that were stored after it, in the order they were stored
\* (stated for the runs the claim is least demanding on: all identifiers differ and
\* the stream's name holds no '_')
C1_ReplayExact ==
    (rp.pc = "done" /\ rp.known /\ DistinctIds(rp.n)) =>
        \A k \in 1..rp.n :
            (stored[k].eventId = rp.last /\ ~HasSeparator(stored[k].streamId))
                => Messages(rp.sent) = LaterOfStream(k, rp.n)

\* C2: a replay asked with an empty, blank or unknown identifier has returned ''
\* at once and the sink was never invoked
C2_UnknownIdNoReplay ==
    (rp.pc # "idle" /\ (Trim(rp.last) = <<>> \/ ~rp.known)) =>
        (rp.pc = "done" /\ rp.sent = <<>> /\ rp.ret = <<>>)

\* an unknown, non-blank identifier was presented to a store that holds events
C2_Witness ==
    /\ rp.pc = "done" /\ ~rp.known /\ Trim(rp.last) # <<>>
    /\ DOMAIN events # {}

\* C16: the identifiers storeEvent has returned are all different, so that no call
\* replaced an event stored before and the store holds one event for each call
C16_FreshIds ==
    /\ DistinctIds(Len(stored))
    /\ Cardinality(DOMAIN events) = Len(stored)
    /\ \A k \in 1..Len(stored) :
          /\ stored[k].eventId \in DOMAIN events
          /\ events[stored[k].eventId].message = stored[k].message

\* C21: of two events stored under one stream, the one stored first has the smaller
\* identifier under localeCompare, the comparison replay sorts with (stated for the
\* pairs whose identifiers differ)
C21_IdsOrderAsStored ==
    \A i, j \in 1..Len(stored) :
        (/\ i < j
         /\ stored[i].streamId = stored[j].streamId
         /\ stored[i].eventId # stored[j].eventId) =>
            LocaleLess(stored[i].eventId, stored[j].eventId)

\* C22: a replay after an identifier storeEvent returned for stream s returns s,
\* whatever characters s holds, and forwards the later events of s (the second half
\* stated for the runs in which all identifiers differ)
C22_PrefixRoundTrip ==
    (rp.pc = "done" /\ rp.known) =>
        \A k \in 1..rp.n :
            stored[k].eventId = rp.last =>
                /\ rp.ret = stored[k].streamId
                /\ DistinctIds(rp.n) =>
                       \A m \in 1..Len(LaterOfStream(k, rp.n)) :
                           \E i \in 1..Len(rp.sent) :
                               rp.sent[i].message = LaterOfStream(k, rp.n)[m]

\* the identifiers of the stored events differ and, within a stream, sort in the
\* order the events were stored
IdsInOrder ==
    \A i, j \in 1..Len(stored) :
        (i < j /\ stored[i].streamId = stored[j].streamId) =>
            LocaleLess(stored[i].eventId, stored[j].eventId)

\* C27: once a replay after the k-th stored event has returned, its client has
\* received the events of that stream stored after the k-th, each once and in the
\* order they were stored, those stored while the replay was suspended included
\* (stated for the runs the claim is least demanding on: identifiers sort in stored
\* order and the stream's name holds no '_')
C27_ReplayThenLive ==
    (rp.pc = "done" /\ rp.known /\ IdsInOrder) =>
        \A k \in 1..Len(stored) :
            (stored[k].eventId = rp.last /\ ~HasSeparator(stored[k].streamId))
                => Messages(rp.got) = LaterOfStream(k, Len(stored))

(***************************************************************************)
(* The specifications: each runs one component and leaves the others idle  *)
(***************************************************************************)
ClientIdle ==
    /\ ready = 0 /\ shutdownPromise = 0 /\ inits = <<>> /\ sds = <<>>
    /\ callers = <<>> /\ initConfig = <<>> /\ apiOpen = FALSE

ServerIdle ==
    /\ transports = EmptyMap /\ tr = <<>> /\ tstore = <<>>
    /\ reqs = <<>> /\ resp = <<>> /\ nReq = 0 /\ uuids = 0 /\ gs = <<>>

StoreSpecInit == StoreInit /\ ClientIdle /\ ServerIdle

StoreSpec == StoreSpecInit /\ [][StoreNext]_vars

ClientSpecInit == ClientInit /\ StoreInit /\ ServerIdle

ClientSpec == ClientSpecInit /\ [][ClientNext]_vars

ServerSpecInit == ServerInit /\ StoreInit /\ ClientIdle

ServerSpec == ServerSpecInit /\ [][ServerNext]_vars

ShutdownSpec == ServerSpecInit /\ [][ShutdownNext]_vars

\* every await of gracefulShutdown settles, and its continuation then runs
ExitSpec == ServerSpecInit /\ [][ExitNext]_vars /\ WF_vars(GsStep)

(***************************************************************************)
(* Claims about the backend client                                         *)
(***************************************************************************)
IsShutdownCall(c) == callers[c].op \in {"shutdown", "apply"}

Settled(p) == IF p = "fulfilled" THEN "resolved" ELSE "rejected"

\* C3: a shutdown() call issued while a shutdown is in flight starts no attempt of
\* its own and settles as the attempt in flight does; an attempt invokes the remote
\* close at most once
C3_SharedShutdown ==
    /\ \A j \in DOMAIN sds : sds[j].closes <= 1
    /\ \A c \in Callers :
          (IsShutdownCall(c) /\ callers[c].joined # 0) =>
              /\ callers[c].started = 0
              /\ callers[c].on = callers[c].joined
              /\ callers[c].pc = "done" =>
                    /\ sds[callers[c].joined].state # "pending"
                    /\ callers[c].outcome = Settled(sds[callers[c].joined].state)
    /\ \A c, d \in Callers :
          (/\ IsShutdownCall(c) /\ IsShutdownCall(d)
           /\ callers[c].pc = "done" /\ callers[d].pc = "done"
           /\ callers[d].joined # 0 /\ callers[d].joined = callers[c].started)
              => callers[c].outcome = callers[d].outcome

\* two overlapping shutdown() calls have settled, and the close ran once
C3_Witness ==
    \E c, d \in Callers :
        /\ c # d /\ IsShutdownCall(c) /\ IsShutdownCall(d)
        /\ callers[c].pc = "done" /\ callers[d].pc = "done"
        /\ callers[c].started # 0 /\ callers[d].joined = callers[c].started
        /\ sds[callers[c].started].closes = 1
        /\ callers[c].outcome = "resolved"

\* C4: the first domain operation called after a shutdown() call has completed awaits
\* an initialization that was started after that shutdown closed the connection and
\* that has not already failed, and it issues its remote call once that
\* initialization has succeeded: a shutdown leaves no client that cannot be used
C4_UsableAfterShutdown ==
    [][\A c \in Callers :
          /\ (CallGetAccounts(c) /\ \E j \in DOMAIN sds : sds[j].seen = "returned") =>
                (ready > 1 /\ inits[ready].state # "rejected")
          /\ (/\ callers'[c].op = "getAccounts" /\ callers'[c].afterSd
              /\ callers'[c].pc = "done"
              /\ inits'[callers'[c].on].state = "fulfilled") =>
                callers'[c].issued]_vars

\* one of the three required settings is empty
ConfigEmpty ==
    initConfig.serverURL = <<>> \/ initConfig.password = <<>> \/ initConfig.syncId = <<>>

\* C12: with an empty server URL, password or sync identifier every initialization
\* fails with the configuration error before mkdir, api.init or api.downloadBudget is
\* invoked, and every domain operation fails with that error without a remote call
C12_ConfigFailsFast ==
    ConfigEmpty =>
        /\ \A k \in DOMAIN inits :
              /\ inits[k].state = "rejected" /\ inits[k].error = "config"
              /\ inits[k].calls = {}
        /\ ~apiOpen
        /\ \A j \in DOMAIN sds : sds[j].state # "fulfilled" /\ sds[j].closes = 0
        /\ \A c \in Callers :
              (callers[c].op = "getAccounts" /\ callers[c].pc # "awaitReady") =>
                  /\ callers[c].pc = "done" /\ callers[c].outcome = "rejected"
                  /\ callers[c].error = "config" /\ ~callers[c].issued

\* with a server URL but without a password, two domain operations have failed
C12_Witness ==
    /\ initConfig.serverURL = <<LA>> /\ initConfig.password = <<>>
    /\ \E c, d \in Callers :
          /\ c # d
          /\ callers[c].op = "getAccounts" /\ callers[c].pc = "done"
          /\ callers[d].op = "getAccounts" /\ callers[d].pc = "done"
          /\ callers[d].k = 2

\* C13: when the initialization `ready` refers to has failed, whoever awaits it gets
\* that failure, and no call of ensureReady starts an initialization
C13_FailureToEveryWaiter ==
    [][/\ \A c \in Callers :
             /\ (GetAccountsReady(c) /\ inits[callers[c].on].state = "rejected") =>
                   /\ callers'[c].pc = "done" /\ callers'[c].outcome = "rejected"
                   /\ callers'[c].error = inits[ready].error
                   /\ ~callers'[c].issued
             /\ (CallGetAccounts(c) \/ GetAccountsReady(c)) => UNCHANGED <<inits, ready>>
             /\ CallGetAccounts(c) => callers'[c].on = ready
       /\ \A j \in DOMAIN sds :
             (SdReady(j) /\ inits[sds[j].on].state = "rejected") =>
                 (sds'[j].state = "rejected" /\ UNCHANGED <<inits, ready>>)]_vars

\* api.init failed; two domain operations and no other initialization got its error
C13_Witness ==
    /\ Len(inits) = 1 /\ inits[1].error = "connect"
    /\ \E c, d \in Callers :
          /\ c # d
          /\ callers[c].op = "getAccounts" /\ callers[c].pc = "done"
          /\ callers[c].error = "connect" /\ ~callers[c].issued
          /\ callers[d].op = "getAccounts" /\ callers[d].pc = "done"
          /\ callers[d].error = "connect" /\ ~callers[d].issued

\* a caller was handed a connectivity error by ensureReady
ConnectivityErrorRaised ==
    \E c \in Callers :
        /\ callers[c].pc = "done" /\ callers[c].outcome = "rejected"
        /\ callers[c].error = "connect" /\ ~callers[c].issued

\* C14: after ensureReady has raised a connectivity error the client can recover:
\* `ready` refers to an initialization that has not failed, or a step of the client
\* (a further call among them) replaces it by a new one
C14_Recoverable ==
    (ConnectivityErrorRaised /\ TotalCalls < MaxCalls) =>
        \/ inits[ready].state # "rejected"
        \/ ENABLED (ClientNext /\ ready' # ready)

\* the initializations in flight
PendingInits == {k \in DOMAIN inits : inits[k].state = "pending"}

\* C15: at most one initialization is in flight; each one but the constructor's was
\* started by a shutdown after the one before it had succeeded, and whoever awaits
\* readiness awaits an initialization that exists
C15_OneInitInFlight ==
    /\ Cardinality(PendingInits) <= 1
    /\ ready = Len(inits)
    /\ \A k \in DOMAIN inits : k < Len(inits) => inits[k].state = "fulfilled"
    /\ Len(inits) = 1 + Cardinality({j \in DOMAIN sds : sds[j].state = "fulfilled"})
    /\ \A c \in Callers :
          (callers[c].op = "getAccounts" /\ callers[c].pc = "awaitReady") =>
              callers[c].on \in DOMAIN inits

\* two domain operations await the one initialization a shutdown has started
C15_Witness ==
    /\ Len(inits) = 2 /\ inits[2].state = "pending"
    /\ \E c, d \in Callers :
          /\ c # d
          /\ callers[c].op = "getAccounts" /\ callers[c].pc = "awaitReady"
          /\ callers[d].op = "getAccounts" /\ callers[d].pc = "awaitReady"
          /\ callers[c].on = 2 /\ callers[d].on = 2

\* C17: when api.shutdown() fails the shutdown attempt still resolves, `ready` is
\* reset to an initialization started then, and the marker of the shutdown in flight
\* is cleared
C17_CloseFailureSwallowed ==
    [][\A j \in DOMAIN sds, open \in BOOLEAN :
          SdApiShutdownDone(j, FALSE, open) =>
              /\ sds'[j].state = "fulfilled"
              /\ Len(inits') = Len(inits) + 1
              /\ ready' = Len(inits')
              /\ inits'[ready'] = initActualApi(initConfig)
              /\ shutdownPromise' = 0
              /\ ~ShutdownInFlight(shutdownPromise')]_vars

\* a shutdown() whose close failed and left the connection open has resolved, and
\* the initialization it started has not reached api.init yet
C17_Witness ==
    /\ apiOpen /\ shutdownPromise = 0
    /\ ready = 2 /\ inits[2].pc = "mkdir"
    /\ sds[1].state = "fulfilled"
    /\ \E c \in Callers :
          /\ IsShutdownCall(c) /\ callers[c].pc = "done"
          /\ callers[c].outcome = "resolved"

\* a shutdown's api.shutdown() has been invoked and has not settled
CloseInFlight == \E j \in DOMAIN sds : sds[j].pc = "apiShutdown"

\* C23: a domain operation issues its remote call only while no remote close is in
\* flight and the initialization `ready` refers to has completed, so that a call
\* made during a shutdown waits for the initialization that follows it
C23_ShutdownSerialized ==
    [][\A c \in Callers :
          (GetAccountsReady(c) /\ callers'[c].issued) =>
              /\ ~CloseInFlight
              /\ inits[ready].state = "fulfilled"]_vars

\* somebody awaits initialization k: a domain operation, or a shutdown
Asked(k) ==
    \/ \E c \in Callers : callers[c].pc = "awaitReady" /\ callers[c].on = k
    \/ \E j \in DOMAIN sds : sds[j].pc = "awaitReady" /\ sds[j].on = k

\* C28: an initialization that follows a shutdown invokes api.init only once a
\* caller has asked for readiness; until then the client stays uninitialized
C28_LazyReinit ==
    [][\A k \in DOMAIN inits :
          (k > 1 /\ InitMkdirDone(k, TRUE)) => Asked(k)]_vars

\* C30: the marker of a shutdown in flight refers to an attempt that has not settled;
\* once an attempt has resolved or rejected the marker is cleared
C30_SettledShutdownCleared ==
    ShutdownInFlight(shutdownPromise) => sds[shutdownPromise].state = "pending"

(***************************************************************************)
(* Claims about the /mcp router                                            *)
(***************************************************************************)
\* the header names no session the registry holds
UnknownSession(h) == h \in 1..MaxTransports /\ ~RegistryHas(transports, h)

\* the step creates nothing and registers nothing
NothingCreated == UNCHANGED <<transports, tr, tstore, reqs>>

\* C5: a POST whose session header names an identifier the registry does not hold is
\* answered 400 'Transport not initialized' whatever its payload, an initialize call
\* included; the registry is left as it was and no transport or store is created
C5_UnknownSessionPost ==
    [][\A r \in Slots, h \in Headers, init \in BOOLEAN :
          (UnknownSession(h) /\ McpPostHandler(r, h, init)) =>
              /\ resp'.status = 400
              /\ resp'.error = "Bad Request: Transport not initialized"
              /\ NothingCreated]_vars

\* an initialize payload sent under an identifier that is not registered was refused
\* while another session was registered
C5_Witness ==
    /\ resp.verb = "POST" /\ resp.init /\ UnknownSession(resp.header)
    /\ resp.status = 400 /\ resp.error = "Bad Request: Transport not initialized"
    /\ DOMAIN transports # {}

\* the session identifiers generated so far do not repeat
DistinctSessionIds ==
    \A t, u \in DOMAIN tr :
        (t # u /\ tr[t].sessionId # NoHeader) => tr[t].sessionId # tr[u].sessionId

\* C6: an initialize that completes leaves one registry entry, keyed by an identifier
\* no other session has and mapping to the transport that generated it; an initialize
\* that fails leaves no entry for its transport
C6_OneEntryPerInitialize ==
    [][\A r \in Slots :
          reqs[r].pc = "initHandle" =>
              /\ (InitHandleReturn(r) /\ resp'.status = 200) =>
                    /\ DistinctSessionIds
                    /\ RegistryHas(transports', tr[reqs[r].t].sessionId)
                    /\ transports'[tr[reqs[r].t].sessionId] = reqs[r].t
              /\ HandleThrow(r, FALSE) =>
                    \A sid \in DOMAIN transports' : transports'[sid] # reqs[r].t]_vars

\* C7: the registry holds no entry for a closed session, and a request that arrives
\* with the identifier of a closed session is answered 400 and handed to no transport
C7_ClosedSessionGone ==
    [][/\ \A t \in DOMAIN tr' :
             tr'[t].closed => ~RegistryHas(transports', tr'[t].sessionId)
       /\ \A r \in Slots, h \in Headers, init \in BOOLEAN :
             (/\ ClosedSession(h)
              /\ \/ McpPostHandler(r, h, init)
                 \/ McpGetHandler(r, h)
                 \/ McpDeleteHandler(r, h)) =>
                 (resp'.status = 400 /\ reqs' = reqs)]_vars

\* the transport of a registered session that has not closed
Live(t) ==
    /\ t \in DOMAIN tr /\ ~tr[t].closed
    /\ RegistryHas(transports, tr[t].sessionId)
    /\ transports[tr[t].sessionId] = t

\* C8: the messages a replay forwards to the client of a session were all stored
\* under that session, whatever Last-Event-ID the client sent
C8_NoCrossSessionReplay ==
    \A i \in 1..Len(resp.replay.msgs) :
        resp.replay.msgs[i].message = resp.replay.session

\* the client of a live session that holds events asked for a replay after an event
\* identifier that only another live session issued
C8_Witness ==
    \E x, y \in DOMAIN tr :
        /\ x # y /\ Live(x) /\ Live(y)
        /\ resp.verb = "GET" /\ resp.status = 200
        /\ resp.replay.session = tr[y].sessionId
        /\ resp.replay.after \in DOMAIN tstore[x]
        /\ resp.replay.after \notin DOMAIN tstore[y]
        /\ DOMAIN tstore[y] # {}

\* request r takes a step
StepOf(r) ==
    \/ reqs'[r] # reqs[r]
    \/ TransportInitialize(r)

\* C9: a GET or DELETE whose session header is missing, empty or not registered is
\* answered 400 and changes nothing; no step of a GET or DELETE adds a registry entry
C9_GetDeleteNeverCreate ==
    [][/\ \A r \in Slots, h \in Headers :
             (/\ h \in {NoHeader, EmptyHeader} \/ UnknownSession(h)
              /\ McpGetHandler(r, h) \/ McpDeleteHandler(r, h)) =>
                 (resp'.status = 400 /\ NothingCreated)
       /\ \A r \in Slots, h \in Headers :
             (McpGetHandler(r, h) \/ McpDeleteHandler(r, h)) =>
                 /\ DOMAIN transports' \subseteq DOMAIN transports
                 /\ reqs'[r].pc \in {"idle", "handle"}
       /\ \A r \in Slots :
             (reqs[r].verb \in {"GET", "DELETE"} /\ StepOf(r)) =>
                 DOMAIN transports' \subseteq DOMAIN transports]_vars

\* a GET or a DELETE that named a session the registry does not hold was refused
\* while another session was registered
C9_Witness ==
    /\ resp.verb \in {"GET", "DELETE"} /\ resp.status = 400
    /\ resp.error = "Invalid or missing session ID"
    /\ UnknownSession(resp.header)
    /\ DOMAIN transports # {}

\* C10: a POST without a session header, or with an empty one, whose payload is not
\* an initialize call is answered 400 'No valid session ID provided' and creates no
\* transport, no event store and no registry entry
C10_NoSessionPost ==
    [][\A r \in Slots, h \in {NoHeader, EmptyHeader} :
          McpPostHandler(r, h, FALSE) =>
              /\ resp'.status = 400
              /\ resp'.error = "Bad Request: No valid session ID provided"
              /\ NothingCreated]_vars

\* a POST that is no initialize call and carries an empty header was refused
C10_Witness ==
    /\ resp.verb = "POST" /\ ~resp.init /\ resp.header = EmptyHeader
    /\ resp.status = 400
    /\ resp.error = "Bad Request: No valid session ID provided"

\* the modes in which buildAuthContext installs a token check
CheckedModes == {"bearer", "oauth"}

\* C19: in bearer or oauth mode a POST, GET or DELETE on /mcp whose token is absent
\* or wrong is answered by the token check alone: no handler runs, the registry,
\* the transports, their event stores and the requests in flight stay as they were
C19_AuthBeforeSession ==
    [][\A m \in CheckedModes, k \in Tokens \ {"valid"} :
          (PostRoute(m, k) \/ GetRoute(m, k) \/ DeleteRoute(m, k)) =>
              /\ resp'.error = "unauthorized"
              /\ UNCHANGED <<transports, tr, tstore, reqs, uuids>>]_vars

\* a request was turned away by the token check while a session was registered and
\* another request was inside transport.handleRequest
C19_Witness ==
    /\ resp.error = "unauthorized"
    /\ DOMAIN transports # {}
    /\ \E r \in Slots : reqs[r].pc = "handle"

\* C18: when transport.handleRequest throws before the response was started the
\* client is answered 500, whatever the verb; when it throws after the response was
\* started the status already sent stands
C18_ThrowAnswered ==
    [][\A r \in Slots :
          /\ HandleThrow(r, FALSE) => resp'.status = 500
          /\ HandleThrow(r, TRUE) => resp'.status = 200]_vars

\* transport t closes and runs its onclose: by itself, or while it answers a DELETE
CloseStep(t) ==
    \/ TransportClose(t)
    \/ \E r \in Slots :
          /\ reqs[r].pc = "handle" /\ reqs[r].verb = "DELETE" /\ reqs[r].t = t
          /\ HandleReturn(r, 200, <<>>)

\* C20: a step that runs the onclose of a transport removes the registry entry of
\* that transport's session if there is one, changes nothing if there is none and
\* leaves the entries of the other sessions alone; a DELETE that names a session
\* already closed is answered 400 and handed to no transport
C20_CloseIdempotentLocal ==
    [][/\ \A t \in DOMAIN tr :
             CloseStep(t) =>
                 /\ ~RegistryHas(transports', tr[t].sessionId)
                 /\ \A sid \in (DOMAIN transports) \ {tr[t].sessionId} :
                        RegistryHas(transports', sid) /\ transports'[sid] = transports[sid]
                 /\ ~RegistryHas(transports, tr[t].sessionId) => transports' = transports
       /\ \A r \in Slots, h \in Headers :
             (ClosedSession(h) /\ McpDeleteHandler(r, h)) =>
                 (resp'.status = 400 /\ reqs' = reqs)]_vars

\* C11: while gracefulShutdown awaits actualClient.shutdown(), and when the process
\* exits, close() has been attempted on every transport the registry holds
C11_CloseBeforeBackend ==
    gs.pc \in {"backend", "exited"} => (DOMAIN transports) \subseteq gs.tried

\* C24: the registry holds no transport that has closed
C24_NoClosedInRegistry ==
    \A sid \in DOMAIN transports : ~tr[transports[sid]].closed

\* C26: when the handling of a POST in a session ends, by a response of the
\* transport or by an error the router answers with 500 'Internal server error',
\* the registry and the transports are as before; a POST that then names a
\* registered session is handed to the transport registered for it
C26_FailedCallKeepsSession ==
    [][/\ \A r \in Slots :
             (/\ reqs[r].pc = "handle" /\ reqs[r].verb = "POST"
              /\ reqs'[r].pc = "idle") =>
                 /\ transports' = transports /\ tr' = tr /\ tstore' = tstore
                 /\ HandleThrow(r, FALSE) =>
                       (resp'.status = 500 /\ resp'.error = "Internal server error")
       /\ \A r \in Slots, h \in DOMAIN transports, init \in BOOLEAN :
             McpPostHandler(r, h, init) =>
                 /\ reqs'[r].pc = "handle" /\ reqs'[r].t = transports[h]
                 /\ transports' = transports]_vars

\* a POST in the only session there is has failed with 500; the session is still
\* registered and live, and another POST is being handled by its transport
C26_Witness ==
    /\ resp.verb = "POST" /\ ~resp.init /\ resp.status = 500
    /\ resp.error = "Internal server error"
    /\ Len(tr) = 1 /\ Live(1)
    /\ \E r \in Slots :
          reqs[r].pc = "handle" /\ reqs[r].verb = "POST" /\ reqs[r].t = 1

\* C25: when the loop of gracefulShutdown ends the registry is empty and every
\* transport that was given a session has closed
C25_LoopLeavesNothing ==
    [][GsLoopEnd =>
          /\ transports = EmptyMap
          /\ \A t \in DOMAIN tr : tr[t].sessionId # NoHeader => tr[t].closed]_vars

\* C29: once gracefulShutdown has started, process.exit is reached, whether the
\* closes and the backend shutdown resolve or reject
C29_ExitReached == (gs.pc = "loop") ~> (gs.pc = "exited")

\* the process has exited after a close() that threw, which left its session
\* registered, and after a backend shutdown that rejected
C29_Witness ==
    /\ gs.pc = "exited" /\ gs.backend = "rejected"
    /\ \E sid \in gs.tried :
          RegistryHas(transports, sid) /\ ~tr[transports[sid]].closed

====
